---- MODULE Spec2Model ----
(***************************************************************************)
(* The UniProt search client of backend/app/tools: UniProtSearchTool       *)
(* (uniprot_search.py), its requests/urllib3 transport configured with     *)
(* Retry(total=5, status_forcelist=[500,502,503,504]), the generator       *)
(* _paginated_search, and the plain tool search_uniprot_data (uniprot.py). *)
(*                                                                         *)
(* Strings are sequences of tokens; an optional value is <<>> (None or an  *)
(* absent header) or <<v>>.  One wire attempt of a GET is one step, the    *)
(* server's answer to it being the step's input.                           *)
(***************************************************************************)
EXTENDS Integers, Sequences, FiniteSets, TLC

\* ------------------------------------------------------------- bounds
MaxUrlLen == 3
MaxPages  == 2

\* ------------------------------------------------------------- constants
\* Retry(total=5, ...): the number of retries urllib3 allows after the
\* first attempt of one urlopen.
\* (Variant: total read as the number of attempts, one retry fewer.)
RetryTotalFour == 5 - 1
RetryTotal == 5

\* Retry(status_forcelist=[500, 502, 503, 504])
\* (Variant: 503 left out of the list.)
StatusForcelistNo503 == {500, 502, 504}
StatusForcelist == {500, 502, 503, 504}
\* urllib3 Retry.RETRY_AFTER_STATUS_CODES with respect_retry_after_header.
RetryAfterStatusCodes == {413, 429, 503}

Callers == {1, 2}

\* ------------------------------------------------------------- strings
CursorEq == "cursor="
Amp      == "&"
RelNext  == ">; rel=\"next\""
RelPrev  == ">; rel=\"prev\""
UrlTok   == {CursorEq, Amp, "a"}

URLs == UNION {[1..n -> UrlTok] : n \in 0..MaxUrlLen}

\* Link header values a server may send: absent, one link with either
\* relation, a link without its opening bracket, and a prev link followed
\* by a next link.
LinkHeaders ==
    {<<>>}
    \cup {<< <<"<">> \o u \o <<r>> >> : u \in URLs, r \in {RelNext, RelPrev}}
    \cup {<< <<"a", RelNext>> >>,
          << <<"<", CursorEq, "a", RelPrev, ",", "<", CursorEq, "b", RelNext>> >>}

\* The few Link headers used where two searches are interleaved.
FewLinkHeaders ==
    {<<>>,
     << <<"<", "a", Amp, CursorEq, "a", RelNext>> >>,
     << <<"<", CursorEq, "b", Amp, "a", RelNext>> >>,
     << <<"<", "a", RelNext>> >>,
     << <<"<", CursorEq, "a", RelPrev>> >>}

Digits == <<"0", "1", "2", "3", "4", "5", "6", "7", "8", "9">>
IsDigit(c) == \E k \in 1..10 : Digits[k] = c
DigitVal(c) == (CHOOSE k \in 1..10 : Digits[k] = c) - 1

\* The server writes its result count into x-total-results in decimal.
RECURSIVE Decimal(_)
Decimal(n) == IF n < 10 THEN <<Digits[n + 1]>>
              ELSE Append(Decimal(n \div 10), Digits[(n % 10) + 1])

ServerTotals == {7, 42}
TotalHeaders ==
    {[count |-> n, hdr |-> <<Decimal(n)>>] : n \in ServerTotals}
    \cup {[count |-> 0, hdr |-> <<>>], [count |-> 0, hdr |-> << <<"x">> >>]}

\* int(s) of Python on a header value: decimal digits, ValueError otherwise.
IntOk(s) == Len(s) > 0 /\ \A k \in 1..Len(s) : IsDigit(s[k])
RECURSIVE IntOf(_)
IntOf(s) == IF s = <<>> THEN 0
            ELSE IntOf(SubSeq(s, 1, Len(s) - 1)) * 10 + DigitVal(s[Len(s)])

\* int(response.headers.get("x-total-results", 0))
TotalOk(hdr) == IF hdr = <<>> THEN TRUE ELSE IntOk(hdr[1])
\* (Variant: a header name the server never sends, so always the default.)
TotalResultsOtherHeader(hdr) == 0
TotalResults(hdr) == IF hdr = <<>> THEN 0 ELSE IntOf(hdr[1])

\* ------------------------------------------------------------- responses
NetErr == [kind |-> "neterr", status |-> 0, hasRA |-> FALSE,
           count |-> 0, total |-> <<>>, link |-> <<>>]
NoResp == [kind |-> "none", status |-> 0, hasRA |-> FALSE,
           count |-> 0, total |-> <<>>, link |-> <<>>]
ErrStatuses == {400, 429, 500, 502, 503, 504}
ErrAnswers == {[status |-> s, hasRA |-> ra] : s \in ErrStatuses, ra \in BOOLEAN}
FewErrAnswers == {[status |-> 400, hasRA |-> FALSE], [status |-> 503, hasRA |-> FALSE]}
FewTotalHeaders == {[count |-> 42, hdr |-> <<Decimal(42)>>]}

\* The headers of a 200: x-total-results and Link are read independently
\* (lines 68 and 69), so each is varied with the other held to a few values.
Headers(totals, links) == {[count |-> t.count, total |-> t.hdr, link |-> l]
                           : t \in totals, l \in links}
AllHeaders == Headers(TotalHeaders, {<<>>, << <<"<", CursorEq, "a", RelNext>> >>})
              \cup Headers(FewTotalHeaders, LinkHeaders)
FewHeaders == Headers(FewTotalHeaders, FewLinkHeaders)

\* What the endpoint may answer to one attempt: no answer (a network-level
\* failure), an error status, or a 200 with its headers.
Outcomes(oks, errs) ==
    {NetErr}
    \cup {[kind |-> "response", status |-> e.status, hasRA |-> e.hasRA,
           count |-> 0, total |-> <<>>, link |-> <<>>] : e \in errs}
    \cup {[kind |-> "response", status |-> 200, hasRA |-> FALSE,
           count |-> h.count, total |-> h.total, link |-> h.link] : h \in oks}
AllOutcomes == Outcomes(AllHeaders, ErrAnswers)
FewOutcomes == Outcomes(FewHeaders, FewErrAnswers)
ToolOutcomes == Outcomes(Headers(FewTotalHeaders, {<<>>}), ErrAnswers)

\* ------------------------------------------------------------- link parsing
\* s.split(tok)[0] and the rest after the first tok (<<>> when tok is absent).
Has(s, tok) == \E k \in 1..Len(s) : s[k] = tok
First(s, tok) == CHOOSE k \in 1..Len(s) : s[k] = tok /\ \A j \in 1..(k - 1) : s[j] # tok
UpTo(s, tok) == IF Has(s, tok) THEN SubSeq(s, 1, First(s, tok) - 1) ELSE s
After(s, tok) == IF Has(s, tok) THEN SubSeq(s, First(s, tok) + 1, Len(s)) ELSE <<>>

\* re.compile(r'<(.+)>; rel="next"').match(h): anchored at the start of h,
\* the group greedy, so it runs to the last '>; rel="next"' of h.
NextEnds(h) == {j \in 3..Len(h) : h[j] = RelNext}
ReMatch(h) == Len(h) >= 3 /\ h[1] = "<" /\ NextEnds(h) # {}
ReGroup(h) == SubSeq(h, 2, (CHOOSE j \in NextEnds(h) : \A k \in NextEnds(h) : k <= j) - 1)

\* _get_next_link(headers)
\* (Variant: any relation taken for a continuation.)
GetNextLinkAnyRel(link) ==
    IF link # <<>> /\ Len(link[1]) >= 3 /\ link[1][1] = "<"
    THEN <<SubSeq(link[1], 2, Len(link[1]) - 1)>> ELSE <<>>
GetNextLink(link) ==
    IF link # <<>> /\ ReMatch(link[1]) THEN <<ReGroup(link[1])>> ELSE <<>>

\* _extract_cursor(next_link): next_link.split("cursor=")[1].split("&")[0];
\* the subscript [1] raises IndexError when next_link has no "cursor=".
\* (Variants: no IndexError, the cursor then being empty; no cut at "&".)
CursorMissingNever(url) == FALSE
CursorMissing(url) == ~Has(url, CursorEq)
ExtractCursorToEnd(url) == UpTo(After(url, CursorEq), CursorEq)
ExtractCursor(url) == UpTo(UpTo(After(url, CursorEq), CursorEq), Amp)

\* ------------------------------------------------------------- requests
\* The arguments of search_uniprot_data (paginate is chosen by the caller's
\* action).
SearchRequests ==
    {[query |-> "insulin", format |-> "json", fields |-> <<>>,
      include_isoform |-> FALSE, size |-> 500, compressed |-> FALSE],
     [query |-> "kinase", format |-> "tsv", fields |-> <<"accession", "gene_names">>,
      include_isoform |-> TRUE, size |-> 5, compressed |-> FALSE]}

PyBool(b) == IF b THEN "true" ELSE "false"
RECURSIVE JoinComma(_)
JoinComma(fs) == IF Len(fs) <= 1 THEN fs
                 ELSE <<Head(fs), ",">> \o JoinComma(Tail(fs))

NoParams == [query |-> "", format |-> "", size |-> 0, includeIsoform |-> "",
             compressed |-> "", fields |-> <<>>, cursor |-> <<>>]
NoHeaders == [Accept |-> ""]

\* search_uniprot_data, lines 44-55: the params and headers of a call.
BuildParams(r) ==
    [query |-> r.query, format |-> r.format, size |-> r.size,
     includeIsoform |-> PyBool(r.include_isoform),
     compressed |-> PyBool(r.compressed),
     fields |-> IF r.fields # <<>> THEN <<JoinComma(r.fields)>> ELSE <<>>,
     cursor |-> <<>>]
BuildHeaders(r) ==
    [Accept |-> IF r.format = "json" THEN "application/json" ELSE "text/plain"]

\* ------------------------------------------------------------- results
NoResult == [kind |-> "none", content |-> "", total_results |-> 0,
             next_page |-> <<>>, error |-> ""]
ErrorResult(e) == [kind |-> "error", content |-> "", total_results |-> 0,
                   next_page |-> <<>>, error |-> e]
\* _single_page_search, lines 66-70
PageResult(p, o) ==
    [kind |-> "page",
     content |-> IF p.format = "json" THEN "json(body)" ELSE "text(body)",
     total_results |-> TotalResults(o.total),
     next_page |-> GetNextLink(o.link),
     error |-> ""]

\* ------------------------------------------------------------- state
VARIABLES
    pc,        \* per caller: "idle", "created" (generator not started),
               \* "fetching", "suspended" (generator at its yield),
               \* "returned", "exhausted" (StopIteration), "raised"
    op,        \* per caller: "", "single", "paginated", "tool"
    called,    \* per caller: the arguments of its current call
    params,    \* per caller: the params dict of its current call
    headers,   \* per caller: the headers dict of its current call
    result,    \* per caller: the value last returned or yielded to it
    err,       \* per caller: the exception that reached it
    requested, \* per caller: next() calls on its current sequence
    fetches,   \* per caller: session.get calls of its current call
    yielded,   \* per caller: pages its current sequence has yielded
    inflight,  \* the GET the session is executing
    lastFetch, \* the GET that completed last: attempts made and final answer
    actor      \* the caller whose code ran in the last step

vars == <<pc, op, called, params, headers, result, err, requested, fetches,
          yielded, inflight, lastFetch, actor>>

NoCall == [query |-> "", format |-> "", fields |-> <<>>,
           include_isoform |-> FALSE, size |-> 0, compressed |-> FALSE]
\* hits: attempts put on the wire; answers: answers received to them;
\* transient: how many of the answers were a 500, 502, 503 or 504.
NoFlight == [who |-> 0, total |-> 0, hits |-> 0, answers |-> 0, transient |-> 0,
             lastSeen |-> NoResp]
NoFetch == [who |-> 0, hits |-> 0, answers |-> 0, transient |-> 0, resp |-> NoResp]

Init ==
    /\ pc = [i \in Callers |-> "idle"]
    /\ op = [i \in Callers |-> ""]
    /\ called = [i \in Callers |-> NoCall]
    /\ params = [i \in Callers |-> NoParams]
    /\ headers = [i \in Callers |-> NoHeaders]
    /\ result = [i \in Callers |-> NoResult]
    /\ err = [i \in Callers |-> ""]
    /\ requested = [i \in Callers |-> 0]
    /\ fetches = [i \in Callers |-> 0]
    /\ yielded = [i \in Callers |-> 0]
    /\ inflight = NoFlight
    /\ lastFetch = NoFetch
    /\ actor = 0

\* ------------------------------------------------------------- transport
\* HTTPAdapter(max_retries=Retry(total=5, ...)): a fresh copy of the policy
\* for every session.get.
NewFlight(i) == [who |-> i, total |-> RetryTotal, hits |-> 1, answers |-> 0,
                 transient |-> 0, lastSeen |-> NoResp]

\* urllib3 Retry.is_retry for a GET: a forcelist status, or a Retry-After
\* header on 413/429/503 while total is non-zero.
\* (Variant: every error status retried.)
IsRetryAnyError(o, total) == o.status >= 400
IsRetry(o, total) ==
    \/ o.status \in StatusForcelist
    \/ (total # 0 /\ o.hasRA /\ o.status \in RetryAfterStatusCodes)

\* urlopen hands a failed attempt to Retry.increment when the attempt raised
\* (connection or read error) or when is_retry says so.
NeedsIncrement(o, total) == o.kind = "neterr" \/ IsRetry(o, total)

\* Retry.increment: total - 1, exhausted below zero.
Exhausted(total) == total - 1 < 0

Transient(o) == o.kind = "response" /\ o.status \in {500, 502, 503, 504}
Count(o) == IF Transient(o) THEN 1 ELSE 0
\* The GET in flight, completed by the answer o.
Completed(o) == [who |-> inflight.who, hits |-> inflight.hits,
                 answers |-> inflight.answers + 1,
                 transient |-> inflight.transient + Count(o), resp |-> o]

\* ------------------------------------------------------------- calls
\* A call's params dict is a local of search_uniprot_data, one per call.
\* (Variant: one dict kept on the instance.)
StoreParamsShared(i, p) == [j \in Callers |-> p]
StoreParams(i, p) == [params EXCEPT ![i] = p]

\* A new call by caller i (who drops whatever it held from its last call).
Begin(i, r, kind) ==
    /\ inflight.who = 0
    /\ op' = [op EXCEPT ![i] = kind]
    /\ called' = [called EXCEPT ![i] = r]
    /\ params' = StoreParams(i, BuildParams(r))
    /\ headers' = [headers EXCEPT ![i] = BuildHeaders(r)]
    /\ result' = [result EXCEPT ![i] = NoResult]
    /\ err' = [err EXCEPT ![i] = ""]
    /\ requested' = [requested EXCEPT ![i] = 0]
    /\ yielded' = [yielded EXCEPT ![i] = 0]
    /\ actor' = i
    /\ lastFetch' = NoFetch

\* search_uniprot_data(..., paginate=False): _single_page_search runs at
\* once and session.get puts the first attempt on the wire.
SearchSingle(i, r) ==
    /\ Begin(i, r, "single")
    /\ pc' = [pc EXCEPT ![i] = "fetching"]
    /\ fetches' = [fetches EXCEPT ![i] = 1]
    /\ inflight' = NewFlight(i)

\* search_uniprot_data(..., paginate=True): calling the generator function
\* _paginated_search runs none of its body.
\* (Variant: the first page fetched when the sequence is created.)
SearchPaginatedEager(i, r) ==
    /\ Begin(i, r, "paginated")
    /\ pc' = [pc EXCEPT ![i] = "fetching"]
    /\ fetches' = [fetches EXCEPT ![i] = 1]
    /\ inflight' = NewFlight(i)
SearchPaginated(i, r) ==
    /\ Begin(i, r, "paginated")
    /\ pc' = [pc EXCEPT ![i] = "created"]
    /\ fetches' = [fetches EXCEPT ![i] = 0]
    /\ UNCHANGED inflight

\* `if not result.get("next_page"): break`
NoNextPage(res) == res.next_page = <<>> \/ res.next_page[1] = <<>>

\* next() on the generator: from its start, or from its yield, up to the
\* session.get of the next page (whose attempts are the steps that follow),
\* the end of the loop, or the IndexError of _extract_cursor.
NextElem(i) ==
    /\ inflight.who = 0
    /\ op[i] = "paginated"
    /\ pc[i] \in {"created", "suspended"}
    /\ requested' = [requested EXCEPT ![i] = @ + 1]
    /\ actor' = i
    /\ UNCHANGED <<op, called, headers, yielded>>
    /\ IF pc[i] = "created"
       THEN /\ pc' = [pc EXCEPT ![i] = "fetching"]
            /\ fetches' = [fetches EXCEPT ![i] = @ + 1]
            /\ inflight' = NewFlight(i)
            /\ lastFetch' = NoFetch
            /\ UNCHANGED <<params, result, err>>
       ELSE IF NoNextPage(result[i])
       THEN /\ pc' = [pc EXCEPT ![i] = "exhausted"]
            /\ UNCHANGED <<params, result, err, fetches, inflight, lastFetch>>
       ELSE IF CursorMissing(result[i].next_page[1])
       THEN /\ pc' = [pc EXCEPT ![i] = "raised"]
            /\ err' = [err EXCEPT ![i] = "IndexError"]
            /\ UNCHANGED <<params, result, fetches, inflight, lastFetch>>
       ELSE /\ fetches[i] < MaxPages
            /\ params' = [params EXCEPT
                            ![i].cursor = <<ExtractCursor(result[i].next_page[1])>>]
            /\ pc' = [pc EXCEPT ![i] = "fetching"]
            /\ fetches' = [fetches EXCEPT ![i] = @ + 1]
            /\ inflight' = NewFlight(i)
            /\ result' = [result EXCEPT ![i] = NoResult]
            /\ lastFetch' = NoFetch
            /\ UNCHANGED err

\* ------------------------------------------------------------- attempts
\* The attempt in flight was answered by o and urllib3 retries it.
RetryAttempt(o) ==
    /\ inflight.who # 0
    /\ NeedsIncrement(o, inflight.total)
    /\ ~Exhausted(inflight.total)
    /\ inflight' = [inflight EXCEPT !.total = @ - 1, !.hits = @ + 1,
                                    !.answers = @ + 1,
                                    !.transient = @ + Count(o), !.lastSeen = o]
    /\ actor' = inflight.who
    /\ UNCHANGED <<pc, op, called, params, headers, result, err, requested,
                   fetches, yielded, lastFetch>>

\* What _single_page_search hands back to its caller: the generator yields
\* it, search_uniprot_data returns it.
Deliver(i, res, o) ==
    /\ result' = [result EXCEPT ![i] = res]
    /\ pc' = [pc EXCEPT ![i] = IF op[i] = "paginated" THEN "suspended" ELSE "returned"]
    /\ yielded' = [yielded EXCEPT ![i] = IF op[i] = "paginated" THEN @ + 1 ELSE @]
    /\ lastFetch' = Completed(o)
    /\ inflight' = NoFlight
    /\ actor' = i
    /\ UNCHANGED <<op, called, params, headers, err, requested, fetches>>

\* The retries are used up: MaxRetryError, which requests raises as
\* RetryError (a status) or ConnectionError, caught at line 71.
GiveUp(o) ==
    /\ inflight.who # 0
    /\ NeedsIncrement(o, inflight.total)
    /\ Exhausted(inflight.total)
    /\ Deliver(inflight.who,
               ErrorResult(IF o.kind = "neterr" THEN "ConnectionError" ELSE "RetryError"),
               o)

\* An answer urllib3 does not retry reaches _single_page_search:
\* raise_for_status, then the page is built (lines 65-70).
ReturnError(o) ==
    /\ inflight.who # 0
    /\ ~NeedsIncrement(o, inflight.total)
    /\ o.status >= 400
    /\ Deliver(inflight.who, ErrorResult("HTTPError"), o)

ReturnPage(o) ==
    /\ inflight.who # 0
    /\ ~NeedsIncrement(o, inflight.total)
    /\ o.status = 200
    /\ TotalOk(o.total)
    /\ Deliver(inflight.who, PageResult(params[inflight.who], o), o)

\* int() of a header that is no number: ValueError is no RequestException
\* and leaves _single_page_search, and the generator with it.
RaiseValueError(o) ==
    /\ inflight.who # 0
    /\ ~NeedsIncrement(o, inflight.total)
    /\ o.status = 200
    /\ ~TotalOk(o.total)
    /\ pc' = [pc EXCEPT ![inflight.who] = "raised"]
    /\ err' = [err EXCEPT ![inflight.who] = "ValueError"]
    /\ lastFetch' = Completed(o)
    /\ inflight' = NoFlight
    /\ actor' = inflight.who
    /\ UNCHANGED <<op, called, params, headers, result, requested, fetches, yielded>>

\* ------------------------------------------------------------- uniprot.py
\* search_uniprot_data(query, size) of uniprot.py: one requests.get without
\* a retry policy.  Its except clause prints response.url, and `response`
\* is unbound when requests.get itself raised.
ToolSearch(i, r, o) ==
    /\ inflight.who = 0
    /\ op' = [op EXCEPT ![i] = "tool"]
    /\ called' = [called EXCEPT ![i] = r]
    /\ params' = [params EXCEPT ![i] = [NoParams EXCEPT !.query = r.query, !.size = r.size]]
    /\ headers' = [headers EXCEPT ![i] = [Accept |-> "application/json"]]
    /\ requested' = [requested EXCEPT ![i] = 0]
    /\ yielded' = [yielded EXCEPT ![i] = 0]
    /\ fetches' = [fetches EXCEPT ![i] = 1]
    /\ lastFetch' = [who |-> i, hits |-> 1, answers |-> 1, transient |-> Count(o),
                     resp |-> o]
    /\ actor' = i
    /\ UNCHANGED inflight
    /\ IF o.kind = "neterr"
       THEN /\ pc' = [pc EXCEPT ![i] = "raised"]
            /\ err' = [err EXCEPT ![i] = "UnboundLocalError"]
            /\ result' = [result EXCEPT ![i] = NoResult]
       ELSE /\ pc' = [pc EXCEPT ![i] = "returned"]
            /\ err' = [err EXCEPT ![i] = ""]
            /\ result' = [result EXCEPT ![i] =
                  IF o.status >= 400 THEN NoResult
                  ELSE [NoResult EXCEPT !.kind = "json", !.content = "json(body)"]]

\* ------------------------------------------------------------- specifications
\* One caller, every answer of the endpoint.
Next ==
    \/ \E r \in SearchRequests : SearchSingle(1, r)
    \/ \E r \in SearchRequests : SearchPaginated(1, r)
    \/ NextElem(1)
    \/ \E o \in AllOutcomes : RetryAttempt(o)
    \/ \E o \in AllOutcomes : GiveUp(o)
    \/ \E o \in AllOutcomes : ReturnError(o)
    \/ \E o \in AllOutcomes : ReturnPage(o)
    \/ \E o \in AllOutcomes : RaiseValueError(o)
    \/ \E r \in SearchRequests, o \in ToolOutcomes : ToolSearch(1, r, o)

Spec == Init /\ [][Next]_vars

\* Two callers taking turns on one UniProtSearchTool instance.
NextShared ==
    \/ \E i \in Callers, r \in SearchRequests : SearchSingle(i, r)
    \/ \E i \in Callers, r \in SearchRequests : SearchPaginated(i, r)
    \/ \E i \in Callers : NextElem(i)
    \/ \E o \in FewOutcomes : RetryAttempt(o)
    \/ \E o \in FewOutcomes : GiveUp(o)
    \/ \E o \in FewOutcomes : ReturnError(o)
    \/ \E o \in FewOutcomes : ReturnPage(o)

SpecShared == Init /\ [][NextShared]_vars

\* ------------------------------------------------------------- properties
\* The vocabulary of the properties, stated on the answers themselves.
NetworkError(o) == o.kind = "neterr"
ClientError(o) == o.kind = "response" /\ o.status \in 400..499
\* A 413 or 429 that asks to be retried with a Retry-After header.
AsksRetry(o) == ClientError(o) /\ o.hasRA /\ o.status \in {413, 429}

\* A GET of UniProtSearchTool has just completed for caller i.
Fetched(i) == lastFetch.who = i /\ op[i] \in {"single", "paginated"}
\* Every answer of that GET, the last one included, was a transient status.
AllTransient == lastFetch.transient = lastFetch.answers
\* The GET in flight has had transient answers only.
TransientSoFar == inflight.who # 0 /\ inflight.transient = inflight.answers

\* C1 as stated: a page fetch answered only by 500/502/503/504 ends in a
\* failure and never makes more than 5 HTTP attempts.
C1_AtMostFiveAttempts ==
    /\ TransientSoFar => inflight.hits <= 5
    /\ \A i \in Callers : (Fetched(i) /\ AllTransient) =>
           (result[i].kind = "error" /\ lastFetch.hits <= 5)

\* C1 amended: a page fetch answered only by 500/502/503/504 is retried and
\* ends in a failure after exactly 6 HTTP attempts (the first and 5 retries);
\* it never makes more than 6.
C1_AtMostSixAttempts ==
    /\ TransientSoFar => inflight.hits <= 6
    /\ \A i \in Callers : (Fetched(i) /\ AllTransient) =>
           (result[i] = ErrorResult("RetryError") /\ lastFetch.hits = 6)

C1_Witness ==
    /\ Fetched(1) /\ AllTransient /\ op[1] = "single"
    /\ pc[1] = "returned" /\ lastFetch.hits = 6

\* C2: every search operation (UniProtSearchTool without pagination, and the
\* search_uniprot_data tool of uniprot.py) returns, for every outcome of its
\* GET, a success result or a failure value distinguishable from a success:
\* never None, never an exception that escapes.  (Answers whose
\* x-total-results is no number are left out of the statement.)
C2_NeverNullNorException ==
    \A i \in Callers :
        (op[i] \in {"single", "tool"} /\ pc[i] \in {"returned", "raised"}
            /\ lastFetch.who = i /\ TotalOk(lastFetch.resp.total)) =>
        (pc[i] = "returned" /\ result[i].kind \in {"page", "json", "error"})

\* C3 as stated: network errors and 4xx answers are never retried; each
\* surfaces as a failure after exactly one attempt.
C3_NeverRetried ==
    /\ inflight.who # 0 =>
           ~(NetworkError(inflight.lastSeen) \/ ClientError(inflight.lastSeen))
    /\ \A i \in Callers :
           (Fetched(i) /\ (NetworkError(lastFetch.resp) \/ ClientError(lastFetch.resp))) =>
           (result[i].kind = "error" /\ (lastFetch.answers = 1 => lastFetch.hits = 1))

\* C3 amended: a 4xx answer is never retried, unless it is a 413 or 429 that
\* carries a Retry-After header; it surfaces as a failure, after exactly one
\* attempt when it is the first answer.  A network error is retried like a
\* forcelist status and surfaces as a failure once the 5 retries are used up.
C3_ClientErrorNotRetried ==
    /\ inflight.who # 0 =>
           (ClientError(inflight.lastSeen) => AsksRetry(inflight.lastSeen))
    /\ \A i \in Callers :
           /\ (Fetched(i) /\ ClientError(lastFetch.resp) /\ ~AsksRetry(lastFetch.resp)) =>
                  /\ result[i] = ErrorResult("HTTPError")
                  /\ lastFetch.answers = 1 => lastFetch.hits = 1
           /\ (Fetched(i) /\ NetworkError(lastFetch.resp)) =>
                  (result[i] = ErrorResult("ConnectionError") /\ lastFetch.hits = 6)

C3_Witness ==
    /\ Fetched(1) /\ lastFetch.resp.status = 400 /\ lastFetch.hits = 1
    /\ result[1] = ErrorResult("HTTPError")

MatchesNext(link) ==
    /\ link # <<>>
    /\ Len(link[1]) >= 3
    /\ link[1][1] = "<"
    /\ \E j \in 3..Len(link[1]) : link[1][j] = RelNext
\* Caller i asks its sequence for the next element in this step.
AsksNext(i) == op[i] = "paginated" /\ requested'[i] = requested[i] + 1
\* Caller i holds a page its sequence yielded from the last GET.
HoldsPage(i) == /\ op[i] = "paginated" /\ pc[i] = "suspended"
                /\ result[i].kind = "page" /\ lastFetch.who = i

\* C5: in paginated mode, asking for the element after a page whose response
\* had no Link header, or one that does not match <URL>; rel="next", ends
\* the sequence: no error, no further request.  A first response without a
\* continuation thus gives a sequence of exactly one page.
C5_EndsWithoutContinuation ==
    [][\A i \in Callers :
          (HoldsPage(i) /\ AsksNext(i) /\ ~MatchesNext(lastFetch.resp.link)) =>
              /\ pc'[i] = "exhausted"
              /\ err'[i] = ""
              /\ fetches'[i] = fetches[i]
              /\ yielded'[i] = yielded[i]
              /\ inflight'.who = 0]_vars

C5_Witness ==
    /\ op[1] = "paginated" /\ pc[1] = "exhausted"
    /\ lastFetch.who = 1 /\ lastFetch.resp.link = <<>>
    /\ yielded[1] = 1 /\ fetches[1] = 1

\* The Link header is exactly <URL>; rel="next", URL a sequence of URL
\* tokens, and C is the cursor value of URL: what follows the first
\* "cursor=" up to the next "&" or the end of URL.
IsUrl(u) == \A k \in 1..Len(u) : u[k] \in UrlTok
UrlOf(link) == SubSeq(link[1], 2, Len(link[1]) - 1)
HasNextForm(link) ==
    /\ link # <<>>
    /\ Len(link[1]) >= 3
    /\ link[1][1] = "<"
    /\ link[1][Len(link[1])] = RelNext
    /\ IsUrl(UrlOf(link))
CursorSpans(u) ==
    {ke \in (1..Len(u)) \X (0..Len(u)) :
        /\ u[ke[1]] = CursorEq
        /\ \A j \in 1..(ke[1] - 1) : u[j] # CursorEq
        /\ ke[1] <= ke[2]
        /\ \A j \in (ke[1] + 1)..ke[2] : u[j] \notin {Amp, CursorEq}
        /\ (ke[2] = Len(u) \/ u[ke[2] + 1] = Amp)}
CursorValues(u) == {SubSeq(u, ke[1] + 1, ke[2]) : ke \in CursorSpans(u)}

C7_DemandDriven ==
    \A i \in Callers : op[i] = "paginated" =>
        /\ fetches[i] <= requested[i]
        /\ fetches[i] <= yielded[i] + 1
        /\ pc[i] = "created" => (fetches[i] = 0 /\ requested[i] = 0)
        /\ pc[i] = "fetching" => (fetches[i] = yielded[i] + 1 /\ fetches[i] = requested[i])
        /\ pc[i] = "suspended" => (fetches[i] = yielded[i] /\ fetches[i] = requested[i])

C7_Witness ==
    /\ op[1] = "paginated" /\ pc[1] = "suspended"
    /\ yielded[1] = 2 /\ fetches[1] = 2 /\ requested[1] = 2

\* What belongs to caller i's search.
Own(i) == <<pc[i], op[i], called[i], params[i], headers[i], result[i], err[i],
            requested[i], fetches[i], yielded[i]>>
\* Caller i starts a call in this step.
StartsCall(i) == actor' = i /\ pc[i] # "fetching" /\ requested'[i] = 0

\* C8: searches on one instance share no state.  A step of one caller leaves
\* the other's search as it was; every call builds its request afresh, its
\* first request without a cursor, and a non-paginated call always issues
\* its own GET; a result is built from the answer to the caller's own
\* request; a cursor sent by a sequence comes from that sequence's own page.
C8_NoSharedState ==
    [][\A i \in Callers :
          /\ actor' # i => Own(i)' = Own(i)
          /\ StartsCall(i) =>
                 /\ params'[i] = BuildParams(called'[i])
                 /\ params'[i].cursor = <<>>
                 /\ headers'[i] = BuildHeaders(called'[i])
                 /\ op'[i] = "single" => (fetches'[i] = 1 /\ inflight'.who = i)
                 /\ op'[i] = "paginated" => (fetches'[i] = 0 /\ inflight'.who = 0)
          /\ (pc[i] = "fetching" /\ pc'[i] \in {"returned", "suspended"}) =>
                 /\ inflight.who = i /\ lastFetch'.who = i
                 /\ lastFetch'.resp.status = 200 =>
                        result'[i] = PageResult(params[i], lastFetch'.resp)
                 /\ lastFetch'.resp.status # 200 => result'[i].kind = "error"
          /\ (AsksNext(i) /\ fetches'[i] = fetches[i] + 1 /\ fetches[i] >= 1) =>
                 /\ result[i].next_page # <<>>
                 /\ params'[i] = [params[i] EXCEPT
                        !.cursor = <<ExtractCursor(result[i].next_page[1])>>]]_vars

C8_Witness ==
    /\ op[1] = "paginated" /\ op[2] = "paginated"
    /\ fetches[1] = 2 /\ fetches[2] = 2
    /\ params[1].cursor = << <<"a">> >> /\ params[2].cursor = << <<"b">> >>
    /\ called[1] = called[2]
    /\ pc[1] = "suspended" /\ pc[2] = "suspended"

\* C9: a page fetch answered by k transient statuses (k up to the 5 retries,
\* k = 3 among them) and then a 200 returns the page built from the 200, the
\* endpoint having been hit k + 1 times; the client never gives up while
\* fewer than 6 transient answers have come.
C9_SucceedsAfterTransient ==
    /\ \A i \in Callers :
           (Fetched(i) /\ lastFetch.resp.status = 200 /\ pc[i] # "raised"
               /\ lastFetch.transient = lastFetch.answers - 1) =>
               /\ result[i] = PageResult(params[i], lastFetch.resp)
               /\ lastFetch.hits = lastFetch.transient + 1
    /\ \A i \in Callers : (Fetched(i) /\ AllTransient) => lastFetch.transient >= 6

C9_Witness ==
    /\ Fetched(1) /\ lastFetch.transient = 3 /\ lastFetch.hits = 4
    /\ lastFetch.resp.status = 200 /\ result[1].kind = "page"
    /\ result[1].total_results = 42

\* The URL the pattern <(.+)>; rel="next" captures: from after the "<" to
\* before the last '>; rel="next"'.
CapturedUrl(link) ==
    LET h == link[1]
        e == CHOOSE j \in 3..Len(h) :
                 h[j] = RelNext /\ \A k \in (j + 1)..Len(h) : h[k] # RelNext
    IN  SubSeq(h, 2, e - 1)

\* C10: in paginated mode, when the page held has a Link header that matches
\* the rel="next" pattern but whose URL has no "cursor=", asking for the
\* next element raises an error (IndexError) to the consumer and issues no
\* request; the sequence neither goes on nor ends as if complete.
C10_MissingCursorRaises ==
    [][\A i \in Callers :
          (HoldsPage(i) /\ AsksNext(i) /\ MatchesNext(lastFetch.resp.link)
              /\ ~Has(CapturedUrl(lastFetch.resp.link), CursorEq)) =>
              /\ pc'[i] = "raised"
              /\ err'[i] = "IndexError"
              /\ fetches'[i] = fetches[i]
              /\ params'[i] = params[i]
              /\ inflight'.who = 0]_vars

C10_Witness ==
    /\ op[1] = "paginated" /\ pc[1] = "raised" /\ err[1] = "IndexError"
    /\ yielded[1] = 1 /\ fetches[1] = 1 /\ inflight.who = 0

====
